---- MODULE Spec2Model ----
(***************************************************************************)
(* A model of the directed-acyclic-graph container of src/src/graph.rs.    *)
(* The state is the Graph's `nodes` map (key -> Node{label, neighbors});   *)
(* one action per public operation.  `last` records the most recent call   *)
(* with its arguments and result, `prev` the map as it was before that     *)
(* call, and `repeated` the immediately preceding call when it was the     *)
(* same call (same operation, same arguments) as `last`.                   *)
(* `proc` holds, per caller, the position inside a connect call that is    *)
(* executed statement by statement, `atomic` says whether such calls       *)
(* exclude each other, and `trav` is the state of one traversal that is    *)
(* pulled item by item.                                                    *)
(***************************************************************************)
EXTENDS Integers, Sequences, FiniteSets

VARIABLES nodes, prev, last, repeated, proc, atomic, trav

vars == <<nodes, prev, last, repeated, proc, atomic, trav>>

\* Labels are the integers 1..MaxLabel.
MaxLabel == 3

Labels == 1..MaxLabel

\* crate::hash: a deterministic map from a label to a u64 key; labels that
\* differ by a multiple of 10 collide, the labels of Labels do not.
hash(label) == 100 + (label % 10)

Keys == {hash(l) : l \in Labels}

\* Node { label, neighbors: HashSet<u64> }
Node(label, neighbors) == [label |-> label, neighbors |-> neighbors]

\* A placeholder for "no node" in a call record (Option::None).
NoNode == Node(0, {})

\* Graph::new / Default::default: an empty map.
new == [k \in {} |-> NoNode]

\* Mutant: the node is inserted only where the key is vacant
\* (entry(key).or_insert(node)).
add_node_or_insert(g, node) ==
    [k \in DOMAIN g \cup {hash(node.label)} |->
        IF k \in DOMAIN g THEN g[k] ELSE node]

\* HashMap::insert of add_node: the node replaces whatever is at its key.
add_node(g, node) ==
    [k \in DOMAIN g \cup {hash(node.label)} |->
        IF k = hash(node.label) THEN node ELSE g[k]]

\* Graph::add: a fresh Node with no neighbors.
add(g, label) == add_node(g, Node(label, {}))

\* Graph::init: add every label of the sequence, in order.
RECURSIVE initFrom(_, _)
initFrom(g, labels) ==
    IF labels = <<>> THEN g
    ELSE initFrom(add(g, Head(labels)), Tail(labels))

init(labels) == initFrom(new, labels)

\* Graph::get: Option<&Node>, as [some, node].
get(g, label) ==
    IF hash(label) \in DOMAIN g
    THEN [some |-> TRUE, node |-> g[hash(label)]]
    ELSE [some |-> FALSE, node |-> NoNode]

\* Node::is_adjacent_to
is_adjacent_to(node, to) == hash(to) \in node.neighbors

\* Mutant: the neighbor set is replaced by the new key alone.
connect_to_replace(node, to) == [node EXCEPT !.neighbors = {hash(to)}]

\* Node::connect_to
connect_to(node, to) == [node EXCEPT !.neighbors = @ \cup {hash(to)}]

\* Mutant: the whole neighbor set is cleared when it holds the key.
disconnect_from_clear(node, from) ==
    IF hash(from) \in node.neighbors THEN [node EXCEPT !.neighbors = {}] ELSE node

\* Mutant: the key is left in the set.
disconnect_from_noop(node, from) == node

\* Node::disconnect_from
disconnect_from(node, from) == [node EXCEPT !.neighbors = @ \ {hash(from)}]

\* Mutant: the node handed back is a fresh one with the label and no neighbors.
remove_returns_fresh(g, label) ==
    IF hash(label) \notin DOMAIN g
    THEN [graph |-> g, some |-> FALSE, node |-> NoNode]
    ELSE [graph |-> [k \in DOMAIN g \ {hash(label)} |->
                        disconnect_from(g[k], label)],
          some  |-> TRUE,
          node  |-> Node(g[hash(label)].label, {})]

\* Mutant: the node is taken out of the map, the other nodes are not visited.
remove_keep_edges(g, label) ==
    IF hash(label) \notin DOMAIN g
    THEN [graph |-> g, some |-> FALSE, node |-> NoNode]
    ELSE [graph |-> [k \in DOMAIN g \ {hash(label)} |-> g[k]],
          some  |-> TRUE,
          node  |-> g[hash(label)]]

\* Graph::remove: take the node out of the map, then strip its key from
\* every remaining node.  Result: the new map and the Option<Node>.
remove(g, label) ==
    IF hash(label) \notin DOMAIN g
    THEN [graph |-> g, some |-> FALSE, node |-> NoNode]
    ELSE [graph |-> [k \in DOMAIN g \ {hash(label)} |->
                        disconnect_from(g[k], label)],
          some  |-> TRUE,
          node  |-> g[hash(label)]]

\* Mutant: a node without outgoing edges is reported as absent.
neighbors_none_when_empty(g, label) ==
    IF ~get(g, label).some \/ get(g, label).node.neighbors = {}
    THEN [some |-> FALSE, labels |-> {}, panic |-> FALSE]
    ELSE LET ks == get(g, label).node.neighbors
         IN  [some   |-> TRUE,
              labels |-> {g[k].label : k \in ks \cap DOMAIN g},
              panic  |-> ks \ DOMAIN g # {}]

\* Graph::neighbors: the labels of the direct successors.  `panic` is the
\* unwrap of nodes.get(k) failing on a key that has no node.
neighbors(g, label) ==
    IF ~get(g, label).some
    THEN [some |-> FALSE, labels |-> {}, panic |-> FALSE]
    ELSE LET ks == get(g, label).node.neighbors
         IN  [some   |-> TRUE,
              labels |-> {g[k].label : k \in ks \cap DOMAIN g},
              panic  |-> ks \ DOMAIN g # {}]

\* Mutant: `to` is looked for among the successors of the successors as well.
is_connected_two_hops(g, from, to) ==
    LET node == get(g, from)
    IN  /\ node.some
        /\ \/ is_adjacent_to(node.node, to)
           \/ \E k \in node.node.neighbors \cap DOMAIN g : is_adjacent_to(g[k], to)

\* Graph::is_connected
is_connected(g, from, to) ==
    LET node == get(g, from)
    IN  node.some /\ is_adjacent_to(node.node, to)

\* A set of keys as a sequence, in ascending order: the order in which the
\* traversal meets the keys of one neighbor set.
RECURSIVE ordered(_)
ordered(S) ==
    IF S = {} THEN <<>>
    ELSE LET m == CHOOSE x \in S : \A y \in S : x <= y
         IN  <<m>> \o ordered(S \ {m})

\* The traversal loop: take a key from the stack (Depth, last in first out)
\* or the queue (Breadth, first in first out), push its neighbors that were
\* not yet visited, yield its label.
RECURSIVE walkFrom(_, _, _, _, _)
walkFrom(g, mode, queue, visited, out) ==
    IF queue = <<>> THEN out
    ELSE LET key   == IF mode = "Depth" THEN queue[Len(queue)] ELSE Head(queue)
             rest  == IF mode = "Depth" THEN SubSeq(queue, 1, Len(queue) - 1)
                      ELSE Tail(queue)
             fresh == IF key \in DOMAIN g THEN g[key].neighbors \ visited ELSE {}
         IN  walkFrom(g, mode, rest \o ordered(fresh), visited \cup fresh,
                      IF key \in DOMAIN g THEN Append(out, g[key].label) ELSE out)

\* Graph::walk: None when the start label is not a node, otherwise the
\* sequence of labels the traversal yields, the start node first.
walk(g, start, mode) ==
    IF hash(start) \notin DOMAIN g
    THEN [some |-> FALSE, items |-> <<>>]
    ELSE [some  |-> TRUE,
          items |-> walkFrom(g, mode, <<hash(start)>>, {hash(start)}, <<>>)]

\* Iterator::any(|n| n == from) over the traversal.
any(items, from) == \E i \in 1..Len(items) : items[i] = from

\* Mutant: no traversal, the edge is inserted whenever both nodes exist.
connect_unchecked(g, from, to) ==
    LET a == hash(from)
        b == hash(to)
    IN  IF a = b \/ a \notin DOMAIN g \/ b \notin DOMAIN g
        THEN [graph |-> g, ret |-> FALSE, panic |-> FALSE]
        ELSE [graph |-> [g EXCEPT ![a] = connect_to(g[a], to)],
              ret   |-> TRUE,
              panic |-> FALSE]

\* Mutant: the traversal starts at `from` and looks for `to`.
connect_reversed(g, from, to) ==
    LET a == hash(from)
        b == hash(to)
    IN  IF a = b \/ a \notin DOMAIN g \/ b \notin DOMAIN g
        THEN [graph |-> g, ret |-> FALSE, panic |-> FALSE]
        ELSE IF any(walk(g, from, "Depth").items, to)
        THEN [graph |-> g, ret |-> FALSE, panic |-> FALSE]
        ELSE [graph |-> [g EXCEPT ![a] = connect_to(g[a], to)],
              ret   |-> TRUE,
              panic |-> FALSE]

\* Mutant: a self-connection is reported as accepted.
connect_self_true(g, from, to) ==
    LET a == hash(from)
        b == hash(to)
    IN  IF a = b
        THEN [graph |-> g, ret |-> TRUE, panic |-> FALSE]
        ELSE IF a \notin DOMAIN g \/ b \notin DOMAIN g
        THEN [graph |-> g, ret |-> FALSE, panic |-> FALSE]
        ELSE IF any(walk(g, to, "Depth").items, from)
        THEN [graph |-> g, ret |-> FALSE, panic |-> FALSE]
        ELSE [graph |-> [g EXCEPT ![a] = connect_to(g[a], to)],
              ret   |-> TRUE,
              panic |-> FALSE]

\* Mutant: the existence check rejects only when both nodes are missing
\* (&& for ||); the unwraps on walk(to) and on get_mut(&a) then fail.
connect_both_missing(g, from, to) ==
    LET a == hash(from)
        b == hash(to)
    IN  IF a = b
        THEN [graph |-> g, ret |-> FALSE, panic |-> FALSE]
        ELSE IF a \notin DOMAIN g /\ b \notin DOMAIN g
        THEN [graph |-> g, ret |-> FALSE, panic |-> FALSE]
        ELSE IF ~walk(g, to, "Depth").some \/ a \notin DOMAIN g
        THEN [graph |-> g, ret |-> FALSE, panic |-> TRUE]
        ELSE IF any(walk(g, to, "Depth").items, from)
        THEN [graph |-> g, ret |-> FALSE, panic |-> FALSE]
        ELSE [graph |-> [g EXCEPT ![a] = connect_to(g[a], to)],
              ret   |-> TRUE,
              panic |-> FALSE]

\* Mutant: the result is that of HashSet::insert, false for a key already held.
connect_insert_result(g, from, to) ==
    LET a == hash(from)
        b == hash(to)
    IN  IF a = b \/ a \notin DOMAIN g \/ b \notin DOMAIN g
        THEN [graph |-> g, ret |-> FALSE, panic |-> FALSE]
        ELSE IF any(walk(g, to, "Depth").items, from)
        THEN [graph |-> g, ret |-> FALSE, panic |-> FALSE]
        ELSE [graph |-> [g EXCEPT ![a] = connect_to(g[a], to)],
              ret   |-> b \notin g[a].neighbors,
              panic |-> FALSE]

\* Graph::connect.  `panic` is the unwrap of walk(to) meeting None.
connect(g, from, to) ==
    LET a == hash(from)
        b == hash(to)
    IN  IF a = b
        THEN [graph |-> g, ret |-> FALSE, panic |-> FALSE]
        ELSE IF a \notin DOMAIN g \/ b \notin DOMAIN g
        THEN [graph |-> g, ret |-> FALSE, panic |-> FALSE]
        ELSE IF ~walk(g, to, "Depth").some
        THEN [graph |-> g, ret |-> FALSE, panic |-> TRUE]
        ELSE IF any(walk(g, to, "Depth").items, from)
        THEN [graph |-> g, ret |-> FALSE, panic |-> FALSE]
        ELSE [graph |-> [g EXCEPT ![a] = connect_to(g[a], to)],
              ret   |-> TRUE,
              panic |-> FALSE]

\* Mutant: only `from` is required to be a node.
disconnect_from_only(g, from, to) ==
    LET a == hash(from)
    IN  IF a \in DOMAIN g
        THEN [graph |-> [g EXCEPT ![a] = disconnect_from(g[a], to)],
              ret   |-> TRUE]
        ELSE [graph |-> g, ret |-> FALSE]

\* Mutant: the result is that of HashSet::remove, false for a key not held.
disconnect_remove_result(g, from, to) ==
    LET a == hash(from)
        b == hash(to)
    IN  IF b \in DOMAIN g /\ a \in DOMAIN g
        THEN [graph |-> [g EXCEPT ![a] = disconnect_from(g[a], to)],
              ret   |-> b \in g[a].neighbors]
        ELSE [graph |-> g, ret |-> FALSE]

\* Graph::disconnect
disconnect(g, from, to) ==
    LET a  == hash(from)
        b  == hash(to)
        bb == b \in DOMAIN g
    IN  IF bb /\ a \in DOMAIN g
        THEN [graph |-> [g EXCEPT ![a] = disconnect_from(g[a], to)],
              ret   |-> TRUE]
        ELSE [graph |-> g, ret |-> FALSE]

----------------------------------------------------------------------------
\* The record of one call: the operation, its label arguments (0 where the
\* operation has none), and what it returned: `ok` is the bool result or
\* is_some() of the Option, `node` the removed Node, `labels` the set that
\* neighbors returned, `panic` whether an unwrap failed, `changed` whether
\* the call left the map different from what it was.
Call(op, a, b, ok, node, labels, panic) ==
    [op |-> op, a |-> a, b |-> b, ok |-> ok, node |-> node,
     labels |-> labels, panic |-> panic, changed |-> FALSE]

NoCall == Call("none", 0, 0, FALSE, NoNode, {}, FALSE)

\* The effect of a call on the state: the map becomes g, the call is recorded.
Record(g, call) ==
    /\ nodes' = g
    /\ prev' = nodes
    /\ last' = [call EXCEPT !.changed = (g # nodes)]
    /\ repeated' = IF last.op = call.op /\ last.a = call.a /\ last.b = call.b
                   THEN last ELSE NoCall
    /\ UNCHANGED <<proc, atomic, trav>>

\* The callers of the statement-by-statement connect.
Procs == {1, 2}

\* A caller that is in no call.
Idle == [pc |-> "idle", from |-> 0, to |-> 0, ret |-> FALSE, panic |-> FALSE,
         steps |-> <<>>]

\* No traversal under way.
NoTrav == [pc |-> "idle", mode |-> "Depth", start |-> 0, queue |-> <<>>,
           visited |-> {}, out |-> <<>>]

\* The label sequences init is called with.
InitLabels == UNION {[1..n -> Labels] : n \in 0..MaxLabel}

Init ==
    /\ \E labels \in InitLabels : nodes = init(labels)
    /\ prev = nodes
    /\ last = NoCall
    /\ repeated = NoCall
    /\ proc = [p \in Procs |-> Idle]
    /\ atomic = TRUE
    /\ trav = NoTrav

Add(label) ==
    Record(add(nodes, label), Call("add", label, 0, TRUE, NoNode, {}, FALSE))

Remove(label) ==
    LET r == remove(nodes, label)
    IN  Record(r.graph, Call("remove", label, 0, r.some, r.node, {}, FALSE))

Neighbors(label) ==
    LET r == neighbors(nodes, label)
    IN  Record(nodes, Call("neighbors", label, 0, r.some, NoNode, r.labels, r.panic))

IsConnected(from, to) ==
    Record(nodes, Call("is_connected", from, to, is_connected(nodes, from, to),
                       NoNode, {}, FALSE))

Connect(from, to) ==
    LET r == connect(nodes, from, to)
    IN  Record(r.graph, Call("connect", from, to, r.ret, NoNode, {}, r.panic))

Disconnect(from, to) ==
    LET r == disconnect(nodes, from, to)
    IN  Record(r.graph, Call("disconnect", from, to, r.ret, NoNode, {}, FALSE))

Next ==
    \/ \E label \in Labels : Add(label)
    \/ \E label \in Labels : Remove(label)
    \/ \E label \in Labels : Neighbors(label)
    \/ \E from, to \in Labels : IsConnected(from, to)
    \/ \E from, to \in Labels : Connect(from, to)
    \/ \E from, to \in Labels : Disconnect(from, to)

Spec == Init /\ [][Next]_vars

----------------------------------------------------------------------------
\* Graph::connect executed one statement group at a time by the callers of
\* Procs.  With `atomic` a call starts only when no other call is under way
\* (the single writer lock of spec section 5); without it the calls, and
\* remove, interleave freely.
MaxStepLabel == 2

StepLabels == 1..MaxStepLabel

StepInitLabels == UNION {[1..n -> StepLabels] : n \in 0..MaxStepLabel}

InitSteps ==
    /\ \E labels \in StepInitLabels : nodes = init(labels)
    /\ prev = nodes
    /\ last = NoCall
    /\ repeated = NoCall
    /\ proc = [p \in Procs |-> Idle]
    /\ atomic \in BOOLEAN
    /\ trav = NoTrav

NoneActive == \A q \in Procs : proc[q].pc = "idle"

\* connect(from, to) is entered.
ConnectCall(p, from, to) ==
    /\ proc[p].pc = "idle"
    /\ atomic => NoneActive
    /\ proc' = [proc EXCEPT ![p] = [Idle EXCEPT !.pc = "self_check",
                                               !.from = from, !.to = to]]
    /\ UNCHANGED <<nodes, prev, last, repeated, atomic, trav>>

\* Lines 80-84: a == b returns false.
ConnectSelfCheck(p) ==
    /\ proc[p].pc = "self_check"
    /\ proc' = [proc EXCEPT ![p] =
                  IF hash(@.from) = hash(@.to)
                  THEN [@ EXCEPT !.pc = "done", !.ret = FALSE,
                                 !.steps = Append(@, "self")]
                  ELSE [@ EXCEPT !.pc = "exist_check",
                                 !.steps = Append(@, "self")]]
    /\ UNCHANGED <<nodes, prev, last, repeated, atomic, trav>>

\* Mutant: the existence check lets every call through.
ConnectExistCheck_skipped(p) ==
    /\ proc[p].pc = "exist_check"
    /\ proc' = [proc EXCEPT ![p] = [@ EXCEPT !.pc = "walk",
                                            !.steps = Append(@, "exists")]]
    /\ UNCHANGED <<nodes, prev, last, repeated, atomic, trav>>

\* Lines 86-90: a missing endpoint returns false.
ConnectExistCheck(p) ==
    /\ proc[p].pc = "exist_check"
    /\ proc' = [proc EXCEPT ![p] =
                  IF hash(@.from) \notin DOMAIN nodes \/ hash(@.to) \notin DOMAIN nodes
                  THEN [@ EXCEPT !.pc = "done", !.ret = FALSE,
                                 !.steps = Append(@, "exists")]
                  ELSE [@ EXCEPT !.pc = "walk",
                                 !.steps = Append(@, "exists")]]
    /\ UNCHANGED <<nodes, prev, last, repeated, atomic, trav>>

\* Mutant: the traversal never reports `from`.
ConnectWalk_blind(p) ==
    /\ proc[p].pc = "walk"
    /\ proc' = [proc EXCEPT ![p] =
                  IF ~walk(nodes, @.to, "Depth").some
                  THEN [@ EXCEPT !.pc = "done", !.ret = FALSE, !.panic = TRUE,
                                 !.steps = Append(@, "walk")]
                  ELSE [@ EXCEPT !.pc = "insert",
                                 !.steps = Append(@, "walk")]]
    /\ UNCHANGED <<nodes, prev, last, repeated, atomic, trav>>

\* Line 92: walk(to).unwrap().any(|n| n == from) over the map as it is now;
\* the unwrap fails when `to` is not a node; finding `from` returns false.
ConnectWalk(p) ==
    /\ proc[p].pc = "walk"
    /\ proc' = [proc EXCEPT ![p] =
                  IF ~walk(nodes, @.to, "Depth").some
                  THEN [@ EXCEPT !.pc = "done", !.ret = FALSE, !.panic = TRUE,
                                 !.steps = Append(@, "walk")]
                  ELSE IF any(walk(nodes, @.to, "Depth").items, @.from)
                  THEN [@ EXCEPT !.pc = "done", !.ret = FALSE,
                                 !.steps = Append(@, "walk")]
                  ELSE [@ EXCEPT !.pc = "insert",
                                 !.steps = Append(@, "walk")]]
    /\ UNCHANGED <<nodes, prev, last, repeated, atomic, trav>>

\* Lines 95-96: get_mut(&a).unwrap().connect_to(to), then true; the unwrap
\* fails when `from` is no longer a node.
ConnectInsert(p) ==
    /\ proc[p].pc = "insert"
    /\ IF hash(proc[p].from) \in DOMAIN nodes
       THEN /\ nodes' = [nodes EXCEPT ![hash(proc[p].from)] =
                            connect_to(@, proc[p].to)]
            /\ proc' = [proc EXCEPT ![p] = [@ EXCEPT !.pc = "done", !.ret = TRUE,
                                                    !.steps = Append(@, "insert")]]
       ELSE /\ nodes' = nodes
            /\ proc' = [proc EXCEPT ![p] = [@ EXCEPT !.pc = "done", !.ret = FALSE,
                                                    !.panic = TRUE,
                                                    !.steps = Append(@, "insert")]]
    /\ UNCHANGED <<prev, last, repeated, atomic, trav>>

\* The call is over; the caller can make another one.
ConnectReturn(p) ==
    /\ proc[p].pc = "done"
    /\ proc' = [proc EXCEPT ![p] = Idle]
    /\ UNCHANGED <<nodes, prev, last, repeated, atomic, trav>>

\* Graph::remove, run to completion between the statements of connect.
StepRemove(label) ==
    /\ atomic => NoneActive
    /\ hash(label) \in DOMAIN nodes
    /\ nodes' = remove(nodes, label).graph
    /\ UNCHANGED <<prev, last, repeated, proc, atomic, trav>>

NextSteps ==
    \/ \E p \in Procs, from, to \in StepLabels : ConnectCall(p, from, to)
    \/ \E p \in Procs : ConnectSelfCheck(p)
    \/ \E p \in Procs : ConnectExistCheck(p)
    \/ \E p \in Procs : ConnectWalk(p)
    \/ \E p \in Procs : ConnectInsert(p)
    \/ \E p \in Procs : ConnectReturn(p)
    \/ \E label \in StepLabels : StepRemove(label)

SpecSteps == InitSteps /\ [][NextSteps]_vars

----------------------------------------------------------------------------
\* One traversal pulled item by item over an arbitrary edge relation.
MaxEdges == 4

\* The orders in which the keys of a set can be met when iterating a HashSet.
Orders(S) ==
    {f \in [1..Cardinality(S) -> S] : \A i, j \in 1..Cardinality(S) : f[i] = f[j] => i = j}

\* Graph::walk at the start of a traversal: absent when the start label is
\* not a node, otherwise the start key is marked visited and queued.
walk_start(g, start, mode) ==
    IF hash(start) \notin DOMAIN g
    THEN [NoTrav EXCEPT !.pc = "absent", !.mode = mode, !.start = start]
    ELSE [pc |-> "walking", mode |-> mode, start |-> start,
          queue |-> <<hash(start)>>, visited |-> {hash(start)}, out |-> <<>>]

\* The key the next item is taken from: the last pushed (Depth) or the first
\* pushed (Breadth).
walk_key(t) == IF t.mode = "Depth" THEN t.queue[Len(t.queue)] ELSE Head(t.queue)

\* The neighbors of that key that are not yet visited.
walk_fresh(g, t) == g[walk_key(t)].neighbors \ t.visited

\* Mutant: a key is marked visited when it is taken, not when it is pushed.
walk_next_mark_on_pop(g, t, ord) ==
    [t EXCEPT !.queue   = (IF t.mode = "Depth" THEN SubSeq(@, 1, Len(@) - 1)
                           ELSE Tail(@)) \o ord,
              !.visited = @ \cup {walk_key(t)},
              !.out     = Append(@, g[walk_key(t)].label)]

\* Iterator::next of the traversal on a non-empty stack or queue: take a key,
\* push its unvisited neighbors in the order `ord` and mark them visited,
\* yield the label of the key.
walk_next(g, t, ord) ==
    [t EXCEPT !.queue   = (IF t.mode = "Depth" THEN SubSeq(@, 1, Len(@) - 1)
                           ELSE Tail(@)) \o ord,
              !.visited = @ \cup walk_fresh(g, t),
              !.out     = Append(@, g[walk_key(t)].label)]

\* The label stored under a key.
LabelOf(k) == CHOOSE l \in Labels : hash(l) = k

\* The graphs over a set D of keys whose edges are any relation on D of at
\* most MaxEdges pairs, cycles and self-loops included.
Relations(D) == {E \in SUBSET (D \X D) : Cardinality(E) <= MaxEdges}

GraphOf(D, E) == [k \in D |-> Node(LabelOf(k), {y \in D : <<k, y>> \in E})]

InitWalk ==
    /\ \E D \in SUBSET Keys : \E E \in Relations(D) : nodes = GraphOf(D, E)
    /\ prev = nodes
    /\ last = NoCall
    /\ repeated = NoCall
    /\ proc = [p \in Procs |-> Idle]
    /\ atomic = TRUE
    /\ trav = NoTrav

\* graph.walk(start, mode)
WalkCall(start, mode) ==
    /\ trav.pc = "idle"
    /\ trav' = walk_start(nodes, start, mode)
    /\ UNCHANGED <<nodes, prev, last, repeated, proc, atomic>>

\* One next() on the traversal: an item, or the end when nothing is queued.
WalkNext ==
    /\ trav.pc = "walking"
    /\ IF trav.queue = <<>>
       THEN trav' = [trav EXCEPT !.pc = "walked"]
       ELSE \E ord \in Orders(walk_fresh(nodes, trav)) :
               trav' = walk_next(nodes, trav, ord)
    /\ UNCHANGED <<nodes, prev, last, repeated, proc, atomic>>

NextWalk ==
    \/ \E start \in Labels, mode \in {"Depth", "Breadth"} : WalkCall(start, mode)
    \/ WalkNext

SpecWalk == InitWalk /\ [][NextWalk]_vars /\ WF_vars(WalkNext)

----------------------------------------------------------------------------
\* The operations called with labels of which two have the same hash: the
\* twin of label 1 differs from it by the period of hash.
Twin(label) == label + 10

MaxCollideLabel == 2

CollideLabels == 1..MaxCollideLabel \cup {Twin(1)}

CollideInitLabels == UNION {[1..n -> CollideLabels] : n \in 0..MaxCollideLabel + 1}

InitCollide ==
    /\ \E labels \in CollideInitLabels : nodes = init(labels)
    /\ prev = nodes
    /\ last = NoCall
    /\ repeated = NoCall
    /\ proc = [p \in Procs |-> Idle]
    /\ atomic = TRUE
    /\ trav = NoTrav

NextCollide ==
    \/ \E label \in CollideLabels : Add(label)
    \/ \E label \in CollideLabels : Remove(label)
    \/ \E from, to \in CollideLabels : Connect(from, to)
    \/ \E from, to \in CollideLabels : Disconnect(from, to)

SpecCollide == InitCollide /\ [][NextCollide]_vars

----------------------------------------------------------------------------
TypeOK ==
    /\ DOMAIN nodes \subseteq Keys
    /\ \A k \in DOMAIN nodes : nodes[k].label \in Labels /\ hash(nodes[k].label) = k

----------------------------------------------------------------------------
\* The edge relation on keys, and reachability over it, by fixpoint iteration
\* (independent of the traversal of walk).
Successors(g, S) == UNION {g[k].neighbors : k \in S \cap DOMAIN g}

RECURSIVE ReachFrom(_, _)
ReachFrom(g, S) ==
    LET T == S \cup Successors(g, S)
    IN  IF T = S THEN S ELSE ReachFrom(g, T)

\* The keys reachable from key k by one or more edges.
ReachablePlus(g, k) == ReachFrom(g, Successors(g, {k}))

Acyclic(g) == \A k \in DOMAIN g : k \notin ReachablePlus(g, k)

IsNode(g, label) == hash(label) \in DOMAIN g

HasEdge(g, from, to) == IsNode(g, from) /\ hash(to) \in g[hash(from)].neighbors

----------------------------------------------------------------------------
\* C1: in every state reached from new() or init(labels) by add, remove,
\* connect and disconnect calls, the edge relation of the neighbor sets has
\* no directed cycle: no node is reachable from itself by one or more edges.
C1_Acyclic == Acyclic(nodes)

\* A connect that would have closed a cycle of length three or more was
\* rejected.
C1_Witness ==
    /\ last.op = "connect"
    /\ ~last.ok
    /\ HasEdge(nodes, last.b, last.a) = FALSE
    /\ IsNode(nodes, last.a) /\ IsNode(nodes, last.b)
    /\ hash(last.a) \in ReachablePlus(nodes, hash(last.b))

\* C2: connect(from, to) returns true iff from and to are different labels,
\* both are nodes of the graph at the call, and from is not reachable from to
\* along the edges at the call.
C2_ConnectIff ==
    last.op = "connect" =>
        (last.ok <=> /\ last.a # last.b
                     /\ IsNode(prev, last.a)
                     /\ IsNode(prev, last.b)
                     /\ hash(last.a) \notin ReachablePlus(prev, hash(last.b)))

\* An edge that closes a diamond was accepted: `to` was already reachable
\* from `from` through another node, and had no direct edge.
C2_Witness ==
    /\ last.op = "connect"
    /\ last.ok
    /\ ~HasEdge(prev, last.a, last.b)
    /\ hash(last.b) \in ReachablePlus(prev, hash(last.a))

\* C3: connect(x, x) returns false, whether x is a node or not, and no node
\* has its own key in its neighbor set.
C3_NoSelfLoop ==
    /\ (last.op = "connect" /\ last.a = last.b) => (~last.ok /\ ~last.panic)
    /\ \A k \in DOMAIN nodes : k \notin nodes[k].neighbors

\* connect(x, x) was called on a node x that has an outgoing edge.
C3_Witness ==
    /\ last.op = "connect"
    /\ last.a = last.b
    /\ IsNode(prev, last.a)
    /\ prev[hash(last.a)].neighbors # {}
    /\ ~last.ok

\* C4: connect(a, b) returns false whenever a or b is not a node at the time
\* of the call, whatever the edges are; in particular right after remove took
\* the endpoint out of the graph.
C4_MissingEndpoint ==
    [][ /\ (last'.op = "connect" /\ (~IsNode(nodes, last'.a) \/ ~IsNode(nodes, last'.b)))
            => (~last'.ok /\ ~last'.panic)
        /\ (last.op = "remove" /\ last.ok /\ last'.op = "connect"
                /\ (last'.a = last.a \/ last'.b = last.a))
            => (~last'.ok /\ ~last'.panic) ]_vars

\* connect(a, b) was called with b not a node and a a node that has edges;
\* it returned false and changed nothing.
C4_Witness ==
    /\ last.op = "connect"
    /\ last.a # last.b
    /\ IsNode(prev, last.a)
    /\ ~IsNode(prev, last.b)
    /\ prev[hash(last.a)].neighbors # {}
    /\ ~last.ok
    /\ ~last.changed

\* C5: a connect(a, b) that directly follows a connect(a, b) that returned
\* true returns true and leaves the node set and every neighbor set as they
\* were; the edge a->b is there.
C5_Reconnect ==
    (last.op = "connect" /\ repeated.op = "connect" /\ repeated.ok) =>
        /\ last.ok
        /\ nodes = prev
        /\ HasEdge(nodes, last.a, last.b)

\* The first connect(a, b) inserted the edge, the second one returned true.
C5_Witness ==
    /\ last.op = "connect"
    /\ repeated.op = "connect"
    /\ repeated.ok
    /\ repeated.changed
    /\ last.ok
    /\ ~last.changed

\* C6: right after remove(x) on a graph that contained x, is_connected(y, x)
\* is false for every remaining node y, neighbors(x) is absent, and x's key
\* is in no remaining node's neighbor set.
C6_RemoveSevers ==
    (last.op = "remove" /\ last.ok) =>
        /\ \A k \in DOMAIN nodes : ~is_connected(nodes, nodes[k].label, last.a)
        /\ ~neighbors(nodes, last.a).some
        /\ \A k \in DOMAIN nodes : hash(last.a) \notin nodes[k].neighbors

\* The removed node had an inbound edge from a node that remains, and an
\* outgoing edge of its own.
C6_Witness ==
    /\ last.op = "remove"
    /\ last.ok
    /\ last.node.neighbors # {}
    /\ \E k \in DOMAIN nodes : hash(last.a) \in prev[k].neighbors

\* C7: every key in every node's neighbor set is the key of a node of the
\* graph, and the lookup inside neighbors() never fails.
C7_NoDangling ==
    /\ \A k \in DOMAIN nodes : nodes[k].neighbors \subseteq DOMAIN nodes
    /\ \A label \in Labels : ~neighbors(nodes, label).panic
    /\ ~last.panic

\* neighbors() resolved every key of a node that has edges, in a graph that
\* some label is not a node of.
C7_Witness ==
    /\ last.op = "neighbors"
    /\ last.ok
    /\ last.labels # {}
    /\ Cardinality(last.labels) = Cardinality(nodes[hash(last.a)].neighbors)
    /\ DOMAIN nodes # Keys

\* C8: disconnect(from, to) returns true iff both from and to are nodes at
\* the call, whether or not the edge exists; after a call that returned true
\* is_connected(from, to) is false.
C8_DisconnectIff ==
    last.op = "disconnect" =>
        /\ last.ok <=> (IsNode(prev, last.a) /\ IsNode(prev, last.b))
        /\ last.ok => ~is_connected(nodes, last.a, last.b)

\* disconnect(x, x) on an existing node x returned true.
C8_Witness ==
    /\ last.op = "disconnect"
    /\ last.a = last.b
    /\ IsNode(prev, last.a)
    /\ last.ok

\* C9: when a and b are both nodes, disconnect(a, b) called twice in a row
\* returns true both times and the second call leaves the graph as the first
\* left it.
C9_DisconnectTwice ==
    (last.op = "disconnect" /\ repeated.op = "disconnect"
        /\ IsNode(prev, last.a) /\ IsNode(prev, last.b)) =>
        /\ repeated.ok
        /\ last.ok
        /\ nodes = prev

\* The first disconnect(a, b) removed the edge, the second one found none and
\* returned true.
C9_Witness ==
    /\ last.op = "disconnect"
    /\ repeated.op = "disconnect"
    /\ repeated.changed
    /\ repeated.ok
    /\ last.ok
    /\ ~last.changed

\* C10: is_connected(from, to) is true exactly when from is a node and to's
\* key is in from's own neighbor set: false when to is reachable only through
\* other nodes, false (no failure) when from is not a node.
C10_DirectEdge ==
    last.op = "is_connected" =>
        /\ last.ok <=> (hash(last.a) \in DOMAIN nodes
                        /\ hash(last.b) \in nodes[hash(last.a)].neighbors)
        /\ ~last.panic

\* is_connected(a, d) returned false although d is reachable from a through
\* an intermediate node.
C10_Witness ==
    /\ last.op = "is_connected"
    /\ ~last.ok
    /\ hash(last.b) \in ReachablePlus(nodes, hash(last.a))


\* C11: neighbors(label) is absent iff label is not a node; for a node it is
\* exactly the set of labels of the nodes it has a direct edge to, the empty
\* set when it has none.
C11_Neighbors ==
    last.op = "neighbors" =>
        /\ last.ok <=> IsNode(nodes, last.a)
        /\ last.ok => last.labels =
               {nodes[k].label : k \in {j \in DOMAIN nodes : HasEdge(nodes, last.a, nodes[j].label)}}
        /\ ~last.ok => last.labels = {}
        /\ ~last.panic

\* neighbors() of a node without outgoing edges, which another node has an
\* edge to, returned the empty set.
C11_Witness ==
    /\ last.op = "neighbors"
    /\ last.ok
    /\ last.labels = {}
    /\ \E k \in DOMAIN nodes : hash(last.a) \in nodes[k].neighbors

\* C12: add(label) leaves at label's key a node with that label and an empty
\* neighbor set, whether or not the key was taken; every other node,
\* including its edges into label, is unchanged, and no other key appears.
C12_AddFrame ==
    last.op = "add" =>
        /\ DOMAIN nodes = DOMAIN prev \cup {hash(last.a)}
        /\ nodes[hash(last.a)] = Node(last.a, {})
        /\ \A k \in DOMAIN prev \ {hash(last.a)} : nodes[k] = prev[k]

\* add(label) replaced a node that had outgoing edges and that another node
\* has an edge to.
C12_Witness ==
    /\ last.op = "add"
    /\ IsNode(prev, last.a)
    /\ prev[hash(last.a)].neighbors # {}
    /\ \E k \in DOMAIN nodes : hash(last.a) \in nodes[k].neighbors

\* C13: remove(label) returns absence and leaves the graph unchanged when
\* label is not a node; otherwise it returns the node as it was before the
\* call (label and neighbor keys) and the node is no longer in the graph.
C13_RemoveResult ==
    last.op = "remove" =>
        IF IsNode(prev, last.a)
        THEN /\ last.ok
             /\ last.node = prev[hash(last.a)]
             /\ last.node.label = last.a
             /\ ~IsNode(nodes, last.a)
        ELSE /\ ~last.ok
             /\ nodes = prev

\* remove() handed back a node that held two neighbor keys.
C13_Witness ==
    /\ last.op = "remove"
    /\ last.ok
    /\ Cardinality(last.node.neighbors) >= 2
    /\ ~IsNode(nodes, last.a)

\* C17: a connect that returns false leaves the map unchanged; a
\* connect(from, to) that returns true leaves the node set and every node
\* other than from unchanged, and from's neighbor set is its previous set
\* plus to's key.
C17_ConnectFrame ==
    last.op = "connect" =>
        IF last.ok
        THEN /\ DOMAIN nodes = DOMAIN prev
             /\ \A k \in DOMAIN prev \ {hash(last.a)} : nodes[k] = prev[k]
             /\ nodes[hash(last.a)].label = prev[hash(last.a)].label
             /\ nodes[hash(last.a)].neighbors =
                    prev[hash(last.a)].neighbors \cup {hash(last.b)}
        ELSE nodes = prev

\* connect(from, to) returned true for a node that already had an edge to
\* another node.
C17_Witness ==
    /\ last.op = "connect"
    /\ last.ok
    /\ prev[hash(last.a)].neighbors \ {hash(last.b)} # {}

\* C18: remove(x) on a graph containing x deletes exactly the node x and the
\* edges from and into x: every other node stays with its label, and an edge
\* between two remaining nodes exists afterwards iff it existed before.
C18_RemoveFrame ==
    (last.op = "remove" /\ last.ok) =>
        /\ DOMAIN nodes = DOMAIN prev \ {hash(last.a)}
        /\ \A k \in DOMAIN nodes :
              /\ nodes[k].label = prev[k].label
              /\ nodes[k].neighbors = prev[k].neighbors \ {hash(last.a)}

\* A node that had an edge to the removed node keeps its edge to another
\* node.
C18_Witness ==
    /\ last.op = "remove"
    /\ last.ok
    /\ \E k \in DOMAIN nodes :
          /\ hash(last.a) \in prev[k].neighbors
          /\ nodes[k].neighbors # {}


\* The elements of a sequence.
Range(seq) == {seq[i] : i \in 1..Len(seq)}

StepOrder == <<"self", "exists", "walk", "insert">>

\* C14: inside connect the self-loop check, the existence check, the
\* traversal and the insertion happen in that order; a traversal is started
\* only in a call where from and to differ and both are nodes, so (calls not
\* interleaving) the unwrap of walk(to) never fails; the edge is inserted only
\* after the traversal has ended without visiting from.
C14_CheckOrder ==
    \A p \in Procs :
        /\ proc[p].steps = SubSeq(StepOrder, 1, Len(proc[p].steps))
        /\ proc[p].pc = "walk" =>
              /\ hash(proc[p].from) # hash(proc[p].to)
              /\ atomic => (IsNode(nodes, proc[p].from) /\ IsNode(nodes, proc[p].to))
        /\ atomic => ~proc[p].panic
        /\ proc[p].pc = "insert" =>
              /\ proc[p].steps = SubSeq(StepOrder, 1, 3)
              /\ atomic => hash(proc[p].from) \notin
                               {hash(proc[p].to)} \cup ReachablePlus(nodes, hash(proc[p].to))
        /\ "insert" \in Range(proc[p].steps) => proc[p].pc = "done"

\* A call went through all four steps and inserted its edge, calls not
\* interleaving.
C14_Witness ==
    /\ atomic
    /\ \E p \in Procs :
          /\ proc[p].pc = "done"
          /\ proc[p].steps = StepOrder
          /\ proc[p].ret
          /\ HasEdge(nodes, proc[p].from, proc[p].to)

\* C15: a traversal started at an existing node, in either mode and over any
\* edge relation, yields no node twice, yields only the start node and nodes
\* reachable from it, never holds more items (yielded and pending) than the
\* graph has nodes, and comes to its end.
C15_Safe ==
    trav.pc \in {"walking", "walked"} =>
        /\ \A i, j \in 1..Len(trav.out) : trav.out[i] = trav.out[j] => i = j
        /\ \A i \in 1..Len(trav.out) :
              hash(trav.out[i]) \in
                  {hash(trav.start)} \cup ReachablePlus(nodes, hash(trav.start))
        /\ Len(trav.out) + Len(trav.queue) <= Cardinality(DOMAIN nodes)
        /\ trav.pc = "walked" =>
              {hash(l) : l \in Range(trav.out)} =
                  {hash(trav.start)} \cup ReachablePlus(nodes, hash(trav.start))

C15_Traversal == []C15_Safe /\ ((trav.pc = "walking") ~> (trav.pc = "walked"))

\* A traversal over a graph with a cycle through its start node has ended
\* after yielding three nodes.
C15_Witness ==
    /\ trav.pc = "walked"
    /\ Len(trav.out) >= 3
    /\ hash(trav.start) \in ReachablePlus(nodes, hash(trav.start))

\* C16: when every connect runs atomically the graph is acyclic in every
\* state; when two connect calls interleave between the cycle check and the
\* insertion, a state with a directed cycle is reachable (the witness).
C16_AtomicAcyclic == atomic => Acyclic(nodes)

\* Two interleaved calls connect(a, b) and connect(b, a) both passed their
\* traversal, both returned true, and the graph has a cycle.
C16_Witness ==
    /\ ~atomic
    /\ \A p \in Procs :
          /\ proc[p].pc = "done"
          /\ proc[p].steps = StepOrder
          /\ proc[p].ret
          /\ ~proc[p].panic
    /\ proc[1].from = proc[2].to
    /\ proc[1].to = proc[2].from
    /\ ~Acyclic(nodes)


\* C19: connect treats labels with the same hash as the same node: a
\* connect(from, to) with different keys whose `from` key holds a node that is
\* reachable from `to` is rejected, also when the label passed differs from
\* the label stored at that key, and the edge relation on keys stays acyclic.
C19_HashIdentity ==
    /\ (/\ last.op = "connect"
        /\ hash(last.a) # hash(last.b)
        /\ IsNode(prev, last.a)
        /\ IsNode(prev, last.b)
        /\ hash(last.a) \in ReachablePlus(prev, hash(last.b))) => ~last.ok
    /\ Acyclic(nodes)

====
